---- MODULE Spec2Model ----
(***************************************************************************)
(* Completion resolution of the Cypher language server:                    *)
(*   completionCoreCompletion, autoCompleteStructurally and                *)
(*   autoCompleteStructurallyAddingChar of server/src/autocompletion.ts,   *)
(* over the parse results and the candidates that the external parser and  *)
(* candidate collector hand them; and the semantic-token encoding of       *)
(* server/src/highlighting.ts (Legend, provideDocumentSemanticTokens,      *)
(* SyntaxHighlighter), over the listener events of the external parser.  Texts (labels, names, token texts) are  *)
(* sequences of one-character strings, so that prefix tests and joins are  *)
(* computed as the code computes them.  JavaScript's 0-based indices are   *)
(* kept; At(s, i) reads s[i] of the code.                                  *)
(***************************************************************************)
EXTENDS Integers, Sequences, FiniteSets, TLC

VARIABLES dbInfo, tokens, tree, candidates, reparsed, pc, result, calls, first,
          parsed, document, tokenTypesMap, tokenModifiersMap, legends, allTokens,
          builder

\* The state of highlighting.ts: the two module-level maps, the Legends
\* constructed so far, the document being highlighted (as the listener events
\* its parse raises), and the tokens and the builder of the last call.
highlighting ==
  <<document, tokenTypesMap, tokenModifiersMap, legends, allTokens, builder>>

vars ==
  <<dbInfo, tokens, tree, candidates, reparsed, pc, result, calls, first, parsed,
    highlighting>>

(***************************************************************************)
(* Bounds of the model.                                                    *)
(***************************************************************************)
MaxNames == 5
MaxStack == 2
MaxToks == 3
MaxRules == 3
MaxFollow == 2
MaxDepth == 3
MaxCalls == 2
MaxLegends == 2
MaxEvents == 2

Min(a, b) == IF a < b THEN a ELSE b

Take(s, n) == SubSeq(s, 1, Min(n, Len(s)))

SeqsUpTo(S, n) == UNION {[1..k -> S] : k \in 0..n}

(***************************************************************************)
(* Texts.                                                                  *)
(***************************************************************************)
Cat == <<"C", "a", "t">>
Person == <<"P", "e", "r", "s", "o", "n">>
Dog == <<"D", "o", "g">>
Bird == <<"B", "i", "r", "d">>
City == <<"C", "i", "t", "y">>
Pet == <<"P", "e", "t">>
KNOWS == <<"K", "N", "O", "W", "S">>
OWNS == <<"O", "W", "N", "S">>
LIKES == <<"L", "I", "K", "E", "S">>
WORKS_IN == <<"I", "N">>
HAS == <<"H", "A", "S">>
foo_bar == <<"f", "o", "o", ".", "b", "a", "r">>
dbms_info == <<"d", "b", "m", "s", ".", "i", "n", "f", "o">>
somethingElse == <<"s", "o", "m", "e", "t", "h", "i", "n", "g", "E", "l", "s", "e">>
xx_yy == <<"x", "x", ".", "y", "y">>
db_info == <<"d", "b", ".", "i", "n", "f", "o">>
db_ping == <<"d", "b", ".", "p", "i", "n", "g">>
abs == <<"a", "b", "s">>
acos == <<"a", "c", "o", "s">>
Abs == <<"A", "b", "s">>
fn_a == <<"a">>
all == <<"a", "l", "l">>
size == <<"s", "i", "z", "e">>
neo4j == <<"n", "e", "o", "4", "j">>
system == <<"s", "y", "s", "t", "e", "m">>
movies == <<"m", "o", "v", "i", "e", "s">>
sales == <<"s", "a", "l", "e", "s">>
hr == <<"h", "r">>
ops == <<"o", "p", "s">>
myAlias == <<"m", "y", "A", "l", "i", "a", "s">>
a_b == <<"a", ".", "b">>
prod == <<"p", "r", "o", "d">>
test == <<"t", "e", "s", "t">>

LabelPool == <<Cat, Person, Dog, Bird, City, Pet>>
RelTypePool == <<KNOWS, Person, OWNS, LIKES, WORKS_IN, HAS>>
ProcedurePool == <<foo_bar, dbms_info, somethingElse, xx_yy, db_info, db_ping>>
FunctionPool == <<abs, acos, Abs, fn_a, all, size>>
DatabasePool == <<neo4j, system, movies, sales, hr, ops>>
AliasPool == <<myAlias, a_b, neo4j, prod, test, hr>>

(***************************************************************************)
(* The schema snapshot.  procedureSignatures and functionSignatures are    *)
(* the key sequences of the maps, in insertion order; absent is the set of *)
(* the fields that the snapshot leaves undefined.                          *)
(***************************************************************************)
DbSchemaFields ==
  {"labels", "relationshipTypes", "procedureSignatures", "functionSignatures",
   "databaseNames", "aliasNames"}

SchemaOf(n, missing) ==
  [labels |-> Take(LabelPool, n),
   relationshipTypes |-> Take(RelTypePool, n),
   procedureSignatures |-> Take(ProcedurePool, n),
   functionSignatures |-> Take(FunctionPool, n),
   databaseNames |-> Take(DatabasePool, n),
   aliasNames |-> Take(AliasPool, n),
   absent |-> missing]

DbInfos == {SchemaOf(n, {}) : n \in 0..MaxNames}

DbSchemas == {SchemaOf(n, missing) : n \in 1..2, missing \in SUBSET DbSchemaFields}

Has(db, field) == field \notin db.absent

(***************************************************************************)
(* Completion items.                                                       *)
(***************************************************************************)
Keyword == "Keyword"
TypeParameter == "TypeParameter"
Function == "Function"
Value == "Value"

CompletionItem(name, kind) == [label |-> name, kind |-> kind]

\* The null that the rule callback returns for a candidate it drops.
Null == [label |-> <<>>, kind |-> "null"]

\* The label of an item mapped from an undefined array element.
UndefinedLabel == <<"undefined">>

MapItems(names, kind) == [i \in 1..Len(names) |-> CompletionItem(names[i], kind)]

\* What a function returns: a list of items, undefined, or a raised TypeError.
List(items) == [tag |-> "list", items |-> items]
Undefined == [tag |-> "undefined", items |-> <<>>]
TypeError == [tag |-> "TypeError", items |-> <<>>]

(***************************************************************************)
(* Tokens of the parse result.  The stream always ends with the end        *)
(* marker, whose text is '<EOF>' unless the lexer failed before it.        *)
(***************************************************************************)
SPACE == "SPACE"
IDENTIFIER == "IDENTIFIER"
EOF == "EOF"

EOFText == <<"<", "E", "O", "F", ">">>
BrokenText == <<"\"", "a">>

Token(type, text) == [type |-> type, text |-> text]

SpaceToken == Token(SPACE, <<" ">>)
NameToken == Token(IDENTIFIER, <<"P">>)
EOFToken == Token(EOF, EOFText)
BrokenEOFToken == Token(EOF, BrokenText)

\* tokens[i] of the code: undefined when i is outside the array.
UndefinedToken == Token("undefined", <<>>)
At(toks, i) == IF i >= 0 /\ i < Len(toks) THEN toks[i + 1] ELSE UndefinedToken

RealTokens == {SpaceToken, NameToken}

TokenStreams == {ts \o <<e>> : ts \in SeqsUpTo(RealTokens, MaxToks), e \in {EOFToken}}

StructuralStreams ==
  {ts \o <<e>> : ts \in SeqsUpTo(RealTokens, MaxToks), e \in {EOFToken, BrokenEOFToken}}

(***************************************************************************)
(* Grammar rules: the rules the collector reports as candidates (the       *)
(* preferred rules) and the rules the dispatch looks for in a candidate's  *)
(* rule list.                                                              *)
(***************************************************************************)
RULE_unescapedSymbolicNameString == "unescapedSymbolicNameString"
RULE_escapedSymbolicNameString == "escapedSymbolicNameString"
RULE_stringLiteral == "stringLiteral"
RULE_symbolicLabelNameString == "symbolicLabelNameString"
RULE_symbolicAliasName == "symbolicAliasName"
RULE_procedureName == "procedureName"
RULE_functionName == "functionName"
RULE_relationshipPattern == "relationshipPattern"
RULE_nodePattern == "nodePattern"
RULE_labelExpression == "labelExpression"
RULE_createAlias == "createAlias"
RULE_createDatabase == "createDatabase"
RULE_createCompositeDatabase == "createCompositeDatabase"
RULE_dropAlias == "dropAlias"
RULE_alterAlias == "alterAlias"
RULE_showAliases == "showAliases"
RULE_statement == "statement"

preferredRules ==
  {RULE_unescapedSymbolicNameString, RULE_escapedSymbolicNameString,
   RULE_stringLiteral, RULE_symbolicLabelNameString, RULE_symbolicAliasName}

EnclosingRules ==
  {RULE_procedureName, RULE_functionName, RULE_relationshipPattern,
   RULE_nodePattern, RULE_labelExpression, RULE_createAlias,
   RULE_createDatabase, RULE_createCompositeDatabase, RULE_dropAlias,
   RULE_alterAlias, RULE_showAliases, RULE_statement}

CandidateRule(ruleNumber, ruleList, startTokenIndex) ==
  [ruleNumber |-> ruleNumber, ruleList |-> ruleList,
   startTokenIndex |-> startTokenIndex]

\* Array.prototype.includes
Includes(list, x) == \E i \in 1..Len(list) : list[i] = x

\* Array.prototype.some over the rules of a list
SomeIncluded(rules, ruleList) == \E i \in 1..Len(rules) : Includes(ruleList, rules[i])

(***************************************************************************)
(* Token candidates and the table of the tokens' display names.            *)
(***************************************************************************)
OPTIONAL == "OPTIONAL"
MATCH == "MATCH"
AS == "AS"
UNNAMED == "UNNAMED"

TokenNumbers == {OPTIONAL, MATCH, AS, UNNAMED}

\* tokenNames[i]: a token without an entry reads as undefined.
tokenNames(i) ==
  CASE i = OPTIONAL -> <<"O", "P", "T", "I", "O", "N", "A", "L">>
    [] i = MATCH -> <<"M", "A", "T", "C", "H">>
    [] i = AS -> <<"A", "S">>
    [] OTHER -> UndefinedLabel

CandidateToken(tokenNumber, indexes, optional) ==
  [tokenNumber |-> tokenNumber, indexes |-> indexes, optional |-> optional]

\* Array.prototype.join(' '): an undefined element joins as the empty string.
RECURSIVE Join(_)
Join(texts) ==
  IF texts = <<>> THEN <<>>
  ELSE LET h == IF Head(texts) = UndefinedLabel THEN <<>> ELSE Head(texts)
       IN IF Len(texts) = 1 THEN h ELSE h \o <<" ">> \o Join(Tail(texts))

(***************************************************************************)
(* completionCoreCompletion                                                *)
(***************************************************************************)
\* Mutant: the labels are read from the relationship types.
labelCompletions_relTypes(db) == MapItems(db.relationshipTypes, TypeParameter)

labelCompletions(db) == MapItems(db.labels, TypeParameter)

reltypeCompletions(db) == MapItems(db.relationshipTypes, TypeParameter)

proceduresCompletions(db) == MapItems(db.procedureSignatures, Function)

functionCompletions(db) == MapItems(db.functionSignatures, Function)

\* What the callback of flatMap returns for a candidate: an array, null, or
\* a TypeError raised on the way.
Returns(items) == [tag |-> "array", items |-> items]
ReturnsNull == [tag |-> "null", items |-> <<>>]
Throws == [tag |-> "throw", items |-> <<>>]

isNameRule(ruleNumber) ==
  \/ ruleNumber = RULE_unescapedSymbolicNameString
  \/ ruleNumber = RULE_symbolicLabelNameString

\* Mutant: a function-name context completes from the function catalog.
nameRuleCompletions_functionCatalog(ruleList, db) ==
  IF Includes(ruleList, RULE_procedureName) THEN Returns(proceduresCompletions(db))
  ELSE IF Includes(ruleList, RULE_functionName) THEN Returns(functionCompletions(db))
  ELSE IF Includes(ruleList, RULE_relationshipPattern) THEN Returns(reltypeCompletions(db))
  ELSE IF Includes(ruleList, RULE_nodePattern) THEN Returns(labelCompletions(db))
  ELSE IF Includes(ruleList, RULE_labelExpression)
    THEN Returns(reltypeCompletions(db) \o labelCompletions(db))
  ELSE ReturnsNull

\* Mutant: the node pattern is looked for before the relationship pattern.
nameRuleCompletions_nodeFirst(ruleList, db) ==
  IF Includes(ruleList, RULE_procedureName) THEN Returns(proceduresCompletions(db))
  ELSE IF Includes(ruleList, RULE_functionName) THEN Returns(proceduresCompletions(db))
  ELSE IF Includes(ruleList, RULE_nodePattern) THEN Returns(labelCompletions(db))
  ELSE IF Includes(ruleList, RULE_relationshipPattern) THEN Returns(reltypeCompletions(db))
  ELSE IF Includes(ruleList, RULE_labelExpression)
    THEN Returns(reltypeCompletions(db) \o labelCompletions(db))
  ELSE ReturnsNull

nameRuleCompletions(ruleList, db) ==
  IF Includes(ruleList, RULE_procedureName) THEN Returns(proceduresCompletions(db))
  ELSE IF Includes(ruleList, RULE_functionName) THEN Returns(proceduresCompletions(db))
  ELSE IF Includes(ruleList, RULE_relationshipPattern) THEN Returns(reltypeCompletions(db))
  ELSE IF Includes(ruleList, RULE_nodePattern) THEN Returns(labelCompletions(db))
  ELSE IF Includes(ruleList, RULE_labelExpression)
    THEN Returns(reltypeCompletions(db) \o labelCompletions(db))
  ELSE ReturnsNull

\* Mutant: the start token itself is tested, not the token after it.
followedBySpace_atStart(candidateRule, toks) ==
  At(toks, candidateRule.startTokenIndex).type = SPACE

followedBySpace(candidateRule, toks) ==
  At(toks, candidateRule.startTokenIndex + 1).type = SPACE

rulesCreatingNewAliasOrDb ==
  <<RULE_createAlias, RULE_createDatabase, RULE_createCompositeDatabase>>

rulesThatOnlyAcceptAlias == <<RULE_dropAlias, RULE_alterAlias, RULE_showAliases>>

\* databaseNames.concat(aliasNames): an undefined argument is appended as one
\* element.
databaseAndAliasNames(db) ==
  db.databaseNames
    \o (IF Has(db, "aliasNames") THEN db.aliasNames ELSE <<UndefinedLabel>>)

\* Mutant: the alias-only rules are looked for before the creating rules.
aliasRuleCompletions_aliasFirst(candidateRule, toks, db) ==
  IF followedBySpace(candidateRule, toks) THEN ReturnsNull
  ELSE IF SomeIncluded(rulesThatOnlyAcceptAlias, candidateRule.ruleList)
    THEN IF Has(db, "aliasNames") THEN Returns(MapItems(db.aliasNames, Value)) ELSE Throws
  ELSE IF SomeIncluded(rulesCreatingNewAliasOrDb, candidateRule.ruleList) THEN ReturnsNull
  ELSE IF Has(db, "databaseNames")
    THEN Returns(MapItems(databaseAndAliasNames(db), Value))
  ELSE Throws

aliasRuleCompletions(candidateRule, toks, db) ==
  IF followedBySpace(candidateRule, toks) THEN ReturnsNull
  ELSE IF SomeIncluded(rulesCreatingNewAliasOrDb, candidateRule.ruleList) THEN ReturnsNull
  ELSE IF SomeIncluded(rulesThatOnlyAcceptAlias, candidateRule.ruleList)
    THEN IF Has(db, "aliasNames") THEN Returns(MapItems(db.aliasNames, Value)) ELSE Throws
  ELSE IF Has(db, "databaseNames")
    THEN Returns(MapItems(databaseAndAliasNames(db), Value))
  ELSE Throws

ruleCallback(candidateRule, toks, db) ==
  IF isNameRule(candidateRule.ruleNumber)
    THEN nameRuleCompletions(candidateRule.ruleList, db)
  ELSE IF candidateRule.ruleNumber = RULE_symbolicAliasName
    THEN aliasRuleCompletions(candidateRule, toks, db)
  ELSE ReturnsNull

\* flatMap: an array is flattened into the result, null stays as one element.
RECURSIVE flatMapRules(_, _, _)
flatMapRules(rules, toks, db) ==
  IF rules = <<>> THEN <<>>
  ELSE LET r == ruleCallback(Head(rules), toks, db)
       IN (IF r.tag = "null" THEN <<Null>> ELSE r.items)
            \o flatMapRules(Tail(rules), toks, db)

filterNull(items) == SelectSeq(items, LAMBDA r : r /= Null)

ruleCompletions(rules, toks, db) == filterNull(flatMapRules(rules, toks, db))

tokenLabels(candidateToken) ==
  LET firstToken == tokenNames(candidateToken.tokenNumber)
      followUpString ==
        Join([i \in 1..Len(candidateToken.indexes) |->
                tokenNames(candidateToken.indexes[i])])
  IN IF firstToken = UndefinedLabel THEN <<>>
     ELSE IF followUpString = <<>> THEN <<firstToken>>
     ELSE LET followUp == firstToken \o <<" ">> \o followUpString
          IN IF candidateToken.optional THEN <<firstToken, followUp>>
             ELSE <<followUp>>

RECURSIVE tokenCandidates(_)
tokenCandidates(cands) ==
  IF cands = <<>> THEN <<>>
  ELSE tokenLabels(Head(cands)) \o tokenCandidates(Tail(cands))

tokenCompletions(cands) == MapItems(tokenCandidates(cands), Keyword)

\* The fields that completionCoreCompletion reads before it looks at any
\* candidate.
coreFields ==
  {"labels", "relationshipTypes", "procedureSignatures", "functionSignatures"}

caretIndexOf(toks) == IF Len(toks) > 1 THEN Len(toks) - 2 ELSE 0

\* Mutant: the keywords are put first.
resultOrder_keywordsFirst(ruleItems, tokenItems) == tokenItems \o ruleItems

resultOrder(ruleItems, tokenItems) == ruleItems \o tokenItems

completionCoreCompletion(toks, cands, db) ==
  IF caretIndexOf(toks) >= 0
    THEN IF \E f \in coreFields : ~Has(db, f) THEN TypeError
         ELSE IF \E i \in 1..Len(cands.rules) :
                   ruleCallback(cands.rules[i], toks, db).tag = "throw"
           THEN TypeError
         ELSE List(resultOrder(ruleCompletions(cands.rules, toks, db),
                               tokenCompletions(cands.tokens)))
  ELSE List(<<>>)

(***************************************************************************)
(* The parse tree, as the structural functions see it: the stop node and   *)
(* its ancestors.  tree[1] is the stop node, tree[i + 1] the parent of     *)
(* tree[i]; a node is named by its position and 0 is undefined.            *)
(***************************************************************************)
LabelExpression4Context == "LabelExpression4Context"
LabelExpression4IsContext == "LabelExpression4IsContext"
NodePatternContext == "NodePatternContext"
RelationshipPatternContext == "RelationshipPatternContext"
Expression2Context == "Expression2Context"
ProcedureNameContext == "ProcedureNameContext"
OtherContext == "OtherContext"

Node(ctx, text) == [ctx |-> ctx, text |-> text]

ExpressionTexts == {<<"a">>, <<"A", "b">>}

TreeNodes ==
  {Node(c, <<>>) : c \in {LabelExpression4Context, LabelExpression4IsContext,
                          NodePatternContext, RelationshipPatternContext,
                          ProcedureNameContext, OtherContext}}
    \cup {Node(Expression2Context, t) : t \in ExpressionTexts}

Trees == UNION {[1..k -> TreeNodes] : k \in 1..MaxDepth}

isDefined(node) == node /= 0

findStopNode(t) == 1

\* The first ancestor of node, from its parent up, that satisfies the
\* condition; undefined when there is none or node is undefined.  A condition
\* is the set of the contexts it accepts.
findParent(t, node, condition) ==
  IF node = 0 THEN 0
  ELSE IF \E j \in (node + 1)..Len(t) : t[j].ctx \in condition
    THEN CHOOSE j \in (node + 1)..Len(t) :
           /\ t[j].ctx \in condition
           /\ \A k \in (node + 1)..(j - 1) : t[k].ctx \notin condition
  ELSE 0

isLabel == {LabelExpression4Context, LabelExpression4IsContext}

inRelationshipType(t, stopNode) ==
  isDefined(findParent(t, findParent(t, stopNode, isLabel), {RelationshipPatternContext}))

parentExpression(t, stopNode) == findParent(t, stopNode, {Expression2Context})

inProcedureName(t, stopNode) ==
  isDefined(findParent(t, stopNode, {ProcedureNameContext}))

\* String.prototype.startsWith
StartsWith(s, prefix) ==
  Len(prefix) <= Len(s) /\ SubSeq(s, 1, Len(prefix)) = prefix

autocompleteRelTypes(db) ==
  IF Has(db, "relationshipTypes") THEN List(MapItems(db.relationshipTypes, TypeParameter))
  ELSE TypeError

autoCompleteFunctions(db, exprText) ==
  IF Has(db, "functionSignatures")
    THEN List(MapItems(SelectSeq(db.functionSignatures,
                                 LAMBDA functionName : StartsWith(functionName, exprText)),
                       Function))
  ELSE TypeError

autoCompleteProcNames(db) ==
  IF Has(db, "procedureSignatures") THEN List(MapItems(db.procedureSignatures, Function))
  ELSE TypeError

emptyStream(lastTokenIndex) == lastTokenIndex <= 0

\* Mutant: the procedure-name position is tested before the enclosing
\* expression.
classifyStopNode_procedureFirst(t, db) ==
  LET stopNode == findStopNode(t)
  IN IF inRelationshipType(t, stopNode) THEN autocompleteRelTypes(db)
     ELSE IF inProcedureName(t, stopNode) THEN autoCompleteProcNames(db)
     ELSE LET expr == parentExpression(t, stopNode)
          IN IF isDefined(expr) THEN autoCompleteFunctions(db, t[expr].text)
             ELSE Undefined

classifyStopNode(t, db) ==
  LET stopNode == findStopNode(t)
  IN IF inRelationshipType(t, stopNode) THEN autocompleteRelTypes(db)
     ELSE LET expr == parentExpression(t, stopNode)
          IN IF isDefined(expr) THEN autoCompleteFunctions(db, t[expr].text)
             ELSE IF inProcedureName(t, stopNode) THEN autoCompleteProcNames(db)
             ELSE Undefined

autoCompleteStructurally(toks, t, db) ==
  LET lastTokenIndex == Len(toks) - 2
      lastToken == At(toks, lastTokenIndex)
      eof == At(toks, lastTokenIndex + 1)
  IN IF emptyStream(lastTokenIndex) THEN Undefined
     ELSE IF eof.text /= EOFText THEN List(<<>>)
     ELSE IF lastToken.type = SPACE THEN Undefined
     ELSE classifyStopNode(t, db)

\* The text up to the caret: the texts of the tokens before the end marker.
RECURSIVE textUntilPosition(_)
textUntilPosition(toks) ==
  IF Len(toks) <= 1 THEN <<>>
  ELSE Head(toks).text \o textUntilPosition(Tail(toks))

\* textUntilPosition + 'x', the text that the variant hands to the parser.
addingChar(text) == text \o <<"x">>

\* Mutant: the variant goes on to the whole classification of the stop node.
autoCompleteStructurallyAddingChar_classify(parsingResult, db) ==
  LET toks == parsingResult.tokens
      t == parsingResult.result
      lastTokenIndex == Len(toks) - 2
      lastToken == At(toks, lastTokenIndex)
  IN IF emptyStream(lastTokenIndex) THEN Undefined
     ELSE IF lastToken.type = SPACE THEN Undefined
     ELSE classifyStopNode(t, db)

\* parsingResult is what the parser makes of the text with 'x' appended.
autoCompleteStructurallyAddingChar(parsingResult, db) ==
  LET toks == parsingResult.tokens
      t == parsingResult.result
      lastTokenIndex == Len(toks) - 2
      lastToken == At(toks, lastTokenIndex)
  IN IF emptyStream(lastTokenIndex) THEN Undefined
     ELSE IF lastToken.type = SPACE THEN Undefined
     ELSE IF inRelationshipType(t, findStopNode(t)) THEN autocompleteRelTypes(db)
     ELSE Undefined

(***************************************************************************)
(* highlighting.ts.  A Map is the sequence of its entries in insertion     *)
(* order; set overwrites the value of a key it holds and appends a new     *)
(* key.                                                                    *)
(***************************************************************************)
MapHas(map, key) == \E i \in 1..Len(map) : map[i].key = key

MapGet(map, key) == map[CHOOSE i \in 1..Len(map) : map[i].key = key].value

MapSet(map, key, value) ==
  IF MapHas(map, key)
    THEN [i \in 1..Len(map) |->
            IF map[i].key = key THEN [key |-> key, value |-> value] ELSE map[i]]
  ELSE Append(map, [key |-> key, value |-> value])

MapKeys(map) == {map[i].key : i \in 1..Len(map)}

tokenTypesLegend ==
  <<"comment", "string", "keyword", "number", "regexp", "operator", "namespace",
    "type", "struct", "class", "interface", "enum", "typeParameter", "function",
    "method", "decorator", "macro", "variable", "parameter", "property", "label">>

tokenModifiersLegend ==
  <<"declaration", "documentation", "readonly", "static", "abstract", "deprecated",
    "modification", "async">>

\* Mutant: an entry is numbered by the size of the map when it is set.
RECURSIVE forEachSet_bySize(_, _, _)
forEachSet_bySize(map, legend, index) ==
  IF index >= Len(legend) THEN map
  ELSE forEachSet_bySize(MapSet(map, legend[index + 1], Len(map)), legend, index + 1)

\* legend.forEach((name, index) => map.set(name, index)), from index on.
RECURSIVE forEachSet(_, _, _)
forEachSet(map, legend, index) ==
  IF index >= Len(legend) THEN map
  ELSE forEachSet(MapSet(map, legend[index + 1], index), legend, index + 1)

\* The Legend that the constructor builds: it pushes the names one by one.
NewLegend == [tokenTypes |-> tokenTypesLegend, tokenModifiers |-> tokenModifiersLegend]

_encodeTokenType(map, tokenType) ==
  IF MapHas(map, tokenType) THEN MapGet(map, tokenType) ELSE 0

\* A token of the lexer, as the listener reads it, and the token that the
\* listener records for it.
Symbol(line, startIndex, stopIndex) ==
  [line |-> line, startIndex |-> startIndex, stopIndex |-> stopIndex]

ParsedToken(token, tokenType) ==
  [line |-> token.line - 1,
   startCharacter |-> token.startIndex,
   length |-> token.stopIndex - token.startIndex + 1,
   tokenType |-> tokenType]

\* A listener event: the method called, the start token of its context (for
\* exitOC_Match the MATCH symbol) and, for exitOC_Match, the OPTIONAL symbol
\* when the clause has one.
Event(handler, start, opt) == [handler |-> handler, start |-> start, opt |-> opt]

\* The tokens that a listener method pushes onto allTokens.
emitted(event) ==
  CASE event.handler = "enterOC_LabelName" -> <<ParsedToken(event.start, "typeParameter")>>
    [] event.handler = "enterOC_Return" -> <<ParsedToken(event.start, "keyword")>>
    [] event.handler = "exitOC_Match" ->
         (IF event.opt /= <<>> THEN <<ParsedToken(event.opt[1], "decorator")>> ELSE <<>>)
           \o <<ParsedToken(event.start, "method")>>
    [] event.handler = "enterOC_Variable" -> <<ParsedToken(event.start, "variable")>>
    [] event.handler = "enterOC_Where" -> <<ParsedToken(event.start, "keyword")>>
    [] event.handler = "enterOC_PropertyKeyName" -> <<ParsedToken(event.start, "property")>>
    [] event.handler = "enterOC_Literal" -> <<ParsedToken(event.start, "string")>>

\* allTokens of a new SyntaxHighlighter after the parse has raised the events.
RECURSIVE listen(_)
listen(events) ==
  IF events = <<>> THEN <<>> ELSE emitted(Head(events)) \o listen(Tail(events))

\* Array.prototype.sort with (a, b) => a.startCharacter - b.startCharacter:
\* ascending start character, tokens of equal start in their former order.
RECURSIVE sortByStartCharacter(_)
sortByStartCharacter(toks) ==
  IF toks = <<>> THEN <<>>
  ELSE LET last == toks[Len(toks)]
           front == sortByStartCharacter(SubSeq(toks, 1, Len(toks) - 1))
           before == SelectSeq(front, LAMBDA t : t.startCharacter <= last.startCharacter)
           after == SelectSeq(front, LAMBDA t : t.startCharacter > last.startCharacter)
       IN before \o <<last>> \o after

\* builder.push(line, startCharacter, length, index, 0) for each sorted token.
pushAll(sortedTokens, map) ==
  [i \in 1..Len(sortedTokens) |->
     [line |-> sortedTokens[i].line,
      char |-> sortedTokens[i].startCharacter,
      length |-> sortedTokens[i].length,
      tokenType |-> _encodeTokenType(map, sortedTokens[i].tokenType),
      tokenModifiers |-> 0]]

(***************************************************************************)
(* The requests.  A request calls one of the three functions on the parse  *)
(* result and the schema snapshot, and may call it again on the same       *)
(* arguments; first keeps what the first call returned.  The functions     *)
(* build new arrays with map, concat, filter and Array.from and assign to  *)
(* no field of the snapshot: schemaAfter is the snapshot they leave.       *)
(***************************************************************************)
\* Mutant: the alias names are pushed onto databaseNames instead of
\* concatenated into a new array.
schemaAfter_push(db) == [db EXCEPT !.databaseNames = @ \o db.aliasNames]

schemaAfter(db) == db

Called(fn, value) ==
  /\ calls < MaxCalls
  /\ pc \in {"idle", fn}
  /\ pc' = fn
  /\ result' = value
  /\ first' = IF calls = 0 THEN value ELSE first
  /\ calls' = calls + 1
  /\ dbInfo' = schemaAfter(dbInfo)
  /\ UNCHANGED <<tokens, tree, candidates, reparsed, highlighting>>

\* parsed lists the texts that a function has handed to parserWrapper.parse;
\* completionCoreCompletion and autoCompleteStructurally work on the parse
\* result they are given.
CompletionCoreCompletion ==
  /\ Called("completionCoreCompletion",
            completionCoreCompletion(tokens, candidates, dbInfo))
  /\ UNCHANGED parsed

AutoCompleteStructurally ==
  /\ Called("autoCompleteStructurally", autoCompleteStructurally(tokens, tree, dbInfo))
  /\ UNCHANGED parsed

AutoCompleteStructurallyAddingChar ==
  /\ Called("autoCompleteStructurallyAddingChar",
            autoCompleteStructurallyAddingChar(reparsed, dbInfo))
  /\ parsed' = Append(parsed, addingChar(textUntilPosition(tokens)))

Next ==
  \/ CompletionCoreCompletion
  \/ AutoCompleteStructurally
  \/ AutoCompleteStructurallyAddingChar

\* new Legend()
Legend ==
  /\ Len(legends) < MaxLegends
  /\ legends' = Append(legends, NewLegend)
  /\ tokenTypesMap' = forEachSet(tokenTypesMap, tokenTypesLegend, 0)
  /\ tokenModifiersMap' = forEachSet(tokenModifiersMap, tokenModifiersLegend, 0)
  /\ pc' = "Legend"
  /\ UNCHANGED <<dbInfo, tokens, tree, candidates, reparsed, result, calls, first,
                 parsed, document, allTokens, builder>>

\* provideDocumentSemanticTokens(textDocument): the function has no await
\* and runs to its end in one step.
ProvideDocumentSemanticTokens ==
  /\ allTokens' = sortByStartCharacter(listen(document))
  /\ builder' = pushAll(allTokens', tokenTypesMap)
  /\ pc' = "provideDocumentSemanticTokens"
  /\ UNCHANGED <<dbInfo, tokens, tree, candidates, reparsed, result, calls, first,
                 parsed, document, tokenTypesMap, tokenModifiersMap, legends>>

NextHighlighting ==
  \/ Legend
  \/ ProvideDocumentSemanticTokens

\* Nothing called yet.
Idle ==
  /\ pc = "idle"
  /\ result = Undefined
  /\ first = Undefined
  /\ calls = 0
  /\ parsed = <<>>

\* The module as loaded: empty maps, no Legend, no call made.
Loaded ==
  /\ tokenTypesMap = <<>>
  /\ tokenModifiersMap = <<>>
  /\ legends = <<>>
  /\ allTokens = <<>>
  /\ builder = <<>>

InitRequest ==
  /\ Idle
  /\ Loaded
  /\ document = <<>>

(***************************************************************************)
(* Inputs.                                                                 *)
(***************************************************************************)
RuleLists == SeqsUpTo(EnclosingRules, MaxStack)

\* The collector keys its rule candidates by rule number and its token
\* candidates by token number: no two candidates of a collection share one.
DistinctRules(rules) ==
  \A i, j \in 1..Len(rules) : rules[i].ruleNumber = rules[j].ruleNumber => i = j

FixedTree == <<Node(OtherContext, <<>>)>>
FixedParse == [tokens |-> <<NameToken, EOFToken>>, result |-> FixedTree]
FixedTokenCandidates == <<CandidateToken(MATCH, <<>>, FALSE)>>
NoCandidates == [rules |-> <<>>, tokens |-> <<>>]

\* "ALTER ALIAS a" and "ALTER ALIAS a ", as far as the dispatch reads them.
CaretStreams ==
  {<<EOFToken>>, <<NameToken, EOFToken>>, <<NameToken, SpaceToken, EOFToken>>}

\* One rule candidate, with every rule list up to MaxStack.
InitCandidate ==
  /\ InitRequest
  /\ dbInfo \in DbInfos
  /\ tokens \in CaretStreams
  /\ tree = FixedTree
  /\ reparsed = FixedParse
  /\ \E r \in preferredRules, l \in RuleLists :
       candidates = [rules |-> <<CandidateRule(r, l, 0)>>,
                     tokens |-> FixedTokenCandidates]

SpecCandidate == InitCandidate /\ [][CompletionCoreCompletion /\ calls = 0]_vars

\* The alias candidate alone, at every start index up to the caret of every
\* stream.
InitAlias ==
  /\ InitRequest
  /\ dbInfo \in {SchemaOf(n, {}) : n \in {0, 1, MaxNames}}
  /\ tokens \in TokenStreams
  /\ tree = FixedTree
  /\ reparsed = FixedParse
  /\ \E l \in RuleLists, start \in 0..caretIndexOf(tokens) :
       candidates = [rules |-> <<CandidateRule(RULE_symbolicAliasName, l, start)>>,
                     tokens |-> FixedTokenCandidates]

SpecAlias == InitAlias /\ [][CompletionCoreCompletion /\ calls = 0]_vars

\* One token candidate, with every follow-up list up to MaxFollow.
InitToken ==
  /\ InitRequest
  /\ dbInfo \in {SchemaOf(n, {}) : n \in {0, 1}}
  /\ tokens \in CaretStreams
  /\ tree = FixedTree
  /\ reparsed = FixedParse
  /\ \E t \in TokenNumbers, f \in SeqsUpTo(TokenNumbers, MaxFollow), o \in BOOLEAN,
        rs \in {<<>>, <<CandidateRule(RULE_symbolicLabelNameString,
                                      <<RULE_nodePattern>>, 0)>>} :
       candidates = [rules |-> rs, tokens |-> <<CandidateToken(t, f, o)>>]

SpecToken == InitToken /\ [][CompletionCoreCompletion /\ calls = 0]_vars

\* The structural functions, on every stream and every chain of ancestors.
InitStructural ==
  /\ InitRequest
  /\ dbInfo \in {SchemaOf(n, {}) : n \in {MaxNames}}
  /\ tokens \in StructuralStreams
  /\ tree \in Trees
  /\ reparsed = FixedParse
  /\ candidates = NoCandidates

SpecStructural == InitStructural /\ [][AutoCompleteStructurally /\ calls = 0]_vars

\* Requests on several candidates, called up to MaxCalls times.
SampleRuleLists ==
  {<<RULE_procedureName>>, <<RULE_nodePattern, RULE_labelExpression>>,
   <<RULE_statement>>}

SampleCandidateRules ==
  {CandidateRule(r, l, 0) : r \in preferredRules, l \in SampleRuleLists}

SampleCandidateTokens ==
  {<<>>,
   <<CandidateToken(MATCH, <<>>, FALSE)>>,
   <<CandidateToken(OPTIONAL, <<MATCH>>, FALSE), CandidateToken(UNNAMED, <<>>, FALSE),
     CandidateToken(AS, <<MATCH>>, TRUE)>>}

SampleTrees ==
  {FixedTree,
   <<Node(OtherContext, <<>>), Node(LabelExpression4Context, <<>>),
     Node(RelationshipPatternContext, <<>>)>>,
   <<Node(OtherContext, <<>>), Node(Expression2Context, <<"a">>)>>,
   <<Node(OtherContext, <<>>), Node(ProcedureNameContext, <<>>)>>}

InitCore ==
  /\ dbInfo \in {SchemaOf(n, {}) : n \in {0, 2}}
  /\ tokens \in {<<NameToken, EOFToken>>, <<NameToken, SpaceToken, EOFToken>>}
  /\ tree = FixedTree
  /\ reparsed = FixedParse
  /\ \E rs \in SeqsUpTo(SampleCandidateRules, MaxRules), ts \in SampleCandidateTokens :
       /\ DistinctRules(rs)
       /\ candidates = [rules |-> rs, tokens |-> ts]

InitTree ==
  /\ dbInfo \in {SchemaOf(n, {}) : n \in {0, 2}}
  /\ tokens \in StructuralStreams
  /\ tree \in SampleTrees
  /\ reparsed = FixedParse
  /\ candidates = NoCandidates

InitReparse ==
  /\ dbInfo \in {SchemaOf(n, {}) : n \in {0, 2}}
  /\ tokens = <<NameToken, EOFToken>>
  /\ tree = FixedTree
  /\ \E ts \in StructuralStreams, t \in SampleTrees :
       reparsed = [tokens |-> ts, result |-> t]
  /\ candidates = NoCandidates

\* The variant, on every reparsed stream and every chain of ancestors.
InitAddingChar ==
  /\ InitRequest
  /\ dbInfo \in {SchemaOf(n, {}) : n \in {MaxNames}}
  /\ tokens \in CaretStreams
  /\ tree = FixedTree
  /\ \E ts \in StructuralStreams, t \in Trees :
       reparsed = [tokens |-> ts, result |-> t]
  /\ candidates = NoCandidates

SpecAddingChar ==
  InitAddingChar /\ [][AutoCompleteStructurallyAddingChar /\ calls = 0]_vars

Init == InitRequest /\ (InitCore \/ InitTree \/ InitReparse)

Spec == Init /\ [][Next]_vars

\* Snapshots that leave fields undefined, under each of the three functions.
InitSchema ==
  /\ InitRequest
  /\ dbInfo \in DbSchemas
  /\ tokens \in {<<NameToken, EOFToken>>, <<NameToken, NameToken, EOFToken>>}
  /\ tree \in SampleTrees
  /\ reparsed = [tokens |-> <<NameToken, NameToken, EOFToken>>, result |-> tree]
  /\ \E rs \in SeqsUpTo(SampleCandidateRules, 1) :
       candidates = [rules |-> rs, tokens |-> FixedTokenCandidates]

SpecSchema == InitSchema /\ [][Next /\ calls = 0]_vars

\* Highlighting: the documents are the sequences of up to MaxEvents listener
\* events on symbols of one character at the first columns of the first line.
Columns == 0..1

Symbols == {Symbol(1, c, c) : c \in Columns}

Handlers ==
  {"enterOC_LabelName", "enterOC_Return", "enterOC_Variable", "enterOC_Where",
   "enterOC_PropertyKeyName", "enterOC_Literal"}

Events ==
  {Event(h, s, <<>>) : h \in Handlers \cup {"exitOC_Match"}, s \in Symbols}
    \cup {Event("exitOC_Match", s, <<o>>) : s \in Symbols, o \in Symbols}

Documents == SeqsUpTo(Events, MaxEvents)

InitHighlighting ==
  /\ Idle
  /\ Loaded
  /\ document \in Documents
  /\ dbInfo = SchemaOf(0, {})
  /\ tokens = <<EOFToken>>
  /\ tree = FixedTree
  /\ reparsed = FixedParse
  /\ candidates = NoCandidates

SpecHighlighting == InitHighlighting /\ [][NextHighlighting]_vars

(***************************************************************************)
(* Properties.                                                             *)
(***************************************************************************)
CoreReturned == pc = "completionCoreCompletion"

\* The items of the result that are not keywords, and those of one kind.
RuleItems == SelectSeq(result.items, LAMBDA it : it.kind /= Keyword)
ItemsOfKind(kind) == SelectSeq(result.items, LAMBDA it : it.kind = kind)

Labelled(names, kind) == [i \in 1..Len(names) |-> [label |-> names[i], kind |-> kind]]

\* The one rule candidate of SpecCandidate and SpecAlias.
Candidate == candidates.rules[1]
InStack(rule) == \E i \in 1..Len(Candidate.ruleList) : Candidate.ruleList[i] = rule
CallableContext == InStack(RULE_procedureName) \/ InStack(RULE_functionName)
NameCandidate ==
  Candidate.ruleNumber \in {RULE_unescapedSymbolicNameString, RULE_symbolicLabelNameString}

\* C1, as stated: every candidate rule whose rule list contains the
\* procedure-name or the function-name rule contributes one Function item per
\* procedure name, in catalog order.
C1_AnyCandidateYieldsProcedures ==
  (CoreReturned /\ CallableContext)
    => RuleItems = Labelled(dbInfo.procedureSignatures, Function)

\* C1, amended: a candidate of the unescaped-symbolic-name or the
\* symbolic-label-name rule whose rule list contains the procedure-name or the
\* function-name rule contributes exactly one Function item per name of the
\* procedure catalog, in catalog order and unfiltered; the function catalog is
\* not used.
C1_NameCandidateYieldsProcedures ==
  (CoreReturned /\ NameCandidate /\ CallableContext)
    => /\ result.tag = "list"
       /\ RuleItems = Labelled(dbInfo.procedureSignatures, Function)

\* 'CALL db' with the five procedures of the catalog: all five are returned.
C1_Witness ==
  /\ CoreReturned
  /\ Candidate.ruleNumber = RULE_unescapedSymbolicNameString
  /\ InStack(RULE_procedureName)
  /\ dbInfo.procedureSignatures = <<foo_bar, dbms_info, somethingElse, xx_yy, db_info>>
  /\ Len(ItemsOfKind(Function)) = 5
  /\ \E i, j \in 1..Len(result.items) :
       /\ result.items[i] = [label |-> dbms_info, kind |-> Function]
       /\ result.items[j] = [label |-> db_info, kind |-> Function]

FollowedBySpace ==
  /\ Candidate.startTokenIndex + 2 <= Len(tokens)
  /\ tokens[Candidate.startTokenIndex + 2].type = SPACE

\* C2: when the token after the start token of the symbolic-alias-name
\* candidate is whitespace, the candidate contributes nothing and the result
\* holds no Value item, whatever the catalogs and the rule list.
C2_SpaceAfterAliasDropsIt ==
  (CoreReturned /\ Candidate.ruleNumber = RULE_symbolicAliasName /\ FollowedBySpace)
    => /\ result.tag = "list"
       /\ RuleItems = <<>>
       /\ \A i \in 1..Len(result.items) : result.items[i].kind /= Value

C2_Witness ==
  /\ CoreReturned
  /\ Candidate.ruleNumber = RULE_symbolicAliasName
  /\ FollowedBySpace
  /\ Candidate.startTokenIndex = 1
  /\ InStack(RULE_alterAlias)
  /\ dbInfo.aliasNames /= <<>>
  /\ dbInfo.databaseNames /= <<>>
  /\ RuleItems = <<>>

Creating ==
  InStack(RULE_createAlias) \/ InStack(RULE_createDatabase)
    \/ InStack(RULE_createCompositeDatabase)
AliasOnly == InStack(RULE_dropAlias) \/ InStack(RULE_alterAlias) \/ InStack(RULE_showAliases)

\* C3: a symbolic-alias-name candidate that the whitespace check keeps
\* contributes nothing under a creation rule (even with an alias-only rule in
\* the list), else the alias names alone under an alias-only rule, else the
\* database names followed by the alias names, as Value items.
C3_AliasClassification ==
  (CoreReturned /\ Candidate.ruleNumber = RULE_symbolicAliasName /\ ~FollowedBySpace)
    => /\ result.tag = "list"
       /\ RuleItems =
            IF Creating THEN <<>>
            ELSE IF AliasOnly THEN Labelled(dbInfo.aliasNames, Value)
            ELSE Labelled(dbInfo.databaseNames, Value) \o Labelled(dbInfo.aliasNames, Value)

C3_Witness ==
  /\ CoreReturned
  /\ Candidate.ruleNumber = RULE_symbolicAliasName
  /\ ~FollowedBySpace
  /\ Creating
  /\ AliasOnly
  /\ dbInfo.aliasNames /= <<>>
  /\ RuleItems = <<>>

NamedTokens == {t \in TokenNumbers : tokenNames(t) /= UndefinedLabel}

\* The one token candidate of SpecToken.
TokenCandidate == candidates.tokens[1]
DisplayName == tokenNames(TokenCandidate.tokenNumber)
KeywordLabels ==
  LET ks == ItemsOfKind(Keyword) IN [i \in 1..Len(ks) |-> ks[i].label]

\* C4: a candidate token without a display name yields no item; one without
\* follow-up tokens yields its display name alone; one with a mandatory
\* follow-up yields exactly one Keyword item, which is not the bare display
\* name; one with an optional follow-up yields two Keyword items, the bare
\* display name first.
C4_TokenLabels ==
  CoreReturned =>
    /\ result.tag = "list"
    /\ IF TokenCandidate.tokenNumber \notin NamedTokens THEN KeywordLabels = <<>>
       ELSE IF TokenCandidate.indexes = <<>> THEN KeywordLabels = <<DisplayName>>
       ELSE IF ~TokenCandidate.optional
         THEN Len(KeywordLabels) = 1 /\ KeywordLabels[1] /= DisplayName
       ELSE /\ Len(KeywordLabels) = 2
            /\ KeywordLabels[1] = DisplayName
            /\ KeywordLabels[2] /= DisplayName

\* 'OP': the candidate OPTIONAL, followed of necessity by MATCH, is offered as
\* 'OPTIONAL MATCH' alone.
C4_Witness ==
  /\ CoreReturned
  /\ TokenCandidate = [tokenNumber |-> OPTIONAL, indexes |-> <<MATCH>>, optional |-> FALSE]
  /\ KeywordLabels
       = <<(<<"O", "P", "T", "I", "O", "N", "A", "L", " ", "M", "A", "T", "C", "H">>)>>

RECURSIVE Contributions(_)
Contributions(rules) ==
  IF rules = <<>> THEN <<>>
  ELSE LET r == ruleCallback(Head(rules), tokens, dbInfo)
       IN r.items \o Contributions(Tail(rules))

\* C5: the result is what the rule candidates contribute, in candidate order
\* and with repetitions, followed by the Keyword items of the token
\* candidates; no Keyword item precedes an item of another kind, and a
\* candidate that matches no case leaves no element.
C5_RuleItemsThenKeywords ==
  (CoreReturned /\ result.tag = "list") =>
    /\ \A i, j \in 1..Len(result.items) :
         (i < j /\ result.items[i].kind = Keyword) => result.items[j].kind = Keyword
    /\ \A i \in 1..Len(result.items) :
         result.items[i].kind \in {Keyword, TypeParameter, Function, Value}
    /\ RuleItems = Contributions(candidates.rules)
    /\ Len(result.items) = Len(RuleItems) + Len(tokenCandidates(candidates.tokens))

C5_Witness ==
  /\ CoreReturned
  /\ Len(candidates.rules) = 3
  /\ candidates.rules[1].ruleNumber = RULE_symbolicLabelNameString
  /\ candidates.rules[2].ruleNumber = RULE_stringLiteral
  /\ candidates.rules[3].ruleNumber = RULE_unescapedSymbolicNameString
  /\ Len(RuleItems) = 4
  /\ RuleItems[1] = RuleItems[3]
  /\ Len(ItemsOfKind(Keyword)) = 3
  /\ result.items[5].kind = Keyword

StructuralReturned == pc = "autoCompleteStructurally"

\* C6: autoCompleteStructurally returns undefined when the stream holds the
\* end marker alone; else the empty list when the text of the end marker is
\* not '<EOF>'; else undefined when the last real token is whitespace.
C6_StructuralGate ==
  StructuralReturned =>
    IF Len(tokens) = 1 THEN result = Undefined
    ELSE IF tokens[Len(tokens)].text /= EOFText THEN result = List(<<>>)
    ELSE (tokens[Len(tokens) - 1].type = SPACE => result = Undefined)

LabelCandidateInNodePattern ==
  /\ CoreReturned
  /\ dbInfo.labels = <<Cat, Person, Dog>>
  /\ tokens = <<NameToken, EOFToken>>
  /\ NameCandidate
  /\ InStack(RULE_nodePattern)
  /\ ~InStack(RULE_relationshipPattern)
  /\ ~CallableContext

\* C7, as stated: with labels Cat, Person, Dog and 'P' typed in a node
\* pattern, the result holds exactly one TypeParameter item, 'Person'.
C7_OnlyTheMatchingLabel ==
  LabelCandidateInNodePattern
    => ItemsOfKind(TypeParameter) = <<[label |-> Person, kind |-> TypeParameter]>>

\* C7, amended: with labels Cat, Person, Dog and 'P' typed in a node pattern,
\* the result holds one TypeParameter item per label of the schema, in schema
\* order and unfiltered ('Person' among them), and no Keyword item carries a
\* label of the schema or the typed text.
C7_EveryLabelOfTheSchema ==
  LabelCandidateInNodePattern
    => /\ ItemsOfKind(TypeParameter) = Labelled(<<Cat, Person, Dog>>, TypeParameter)
       /\ RuleItems = ItemsOfKind(TypeParameter)
       /\ \A i \in 1..Len(result.items) :
            result.items[i].kind = Keyword
              => result.items[i].label \notin {Cat, Person, Dog, NameToken.text}

C7_Witness ==
  /\ LabelCandidateInNodePattern
  /\ Candidate.ruleNumber = RULE_symbolicLabelNameString
  /\ InStack(RULE_labelExpression)
  /\ result.items[2] = [label |-> Person, kind |-> TypeParameter]
  /\ Len(ItemsOfKind(Keyword)) = 1

\* C8: with any of the catalog fields absent from the snapshot, each of the
\* three functions returns items or undefined and raises nothing.
C8_AbsentFieldsNeverRaise == calls > 0 => result.tag \in {"list", "undefined"}

C10_AnyCandidateByPattern ==
  CoreReturned =>
    IF InStack(RULE_relationshipPattern)
      THEN RuleItems = Labelled(dbInfo.relationshipTypes, TypeParameter)
    ELSE IF InStack(RULE_nodePattern)
      THEN RuleItems = Labelled(dbInfo.labels, TypeParameter)
    ELSE InStack(RULE_labelExpression)
           => RuleItems = Labelled(dbInfo.relationshipTypes, TypeParameter)
                            \o Labelled(dbInfo.labels, TypeParameter)

\* C10, amended: the same, for a candidate of the unescaped-symbolic-name or
\* the symbolic-label-name rule whose rule list contains neither the
\* procedure-name nor the function-name rule.
C10_NameCandidateByPattern ==
  (CoreReturned /\ NameCandidate /\ ~CallableContext) =>
    IF InStack(RULE_relationshipPattern)
      THEN RuleItems = Labelled(dbInfo.relationshipTypes, TypeParameter)
    ELSE IF InStack(RULE_nodePattern)
      THEN RuleItems = Labelled(dbInfo.labels, TypeParameter)
    ELSE InStack(RULE_labelExpression)
           => RuleItems = Labelled(dbInfo.relationshipTypes, TypeParameter)
                            \o Labelled(dbInfo.labels, TypeParameter)

C10_Witness ==
  /\ CoreReturned
  /\ NameCandidate
  /\ Candidate.ruleList = <<RULE_nodePattern, RULE_relationshipPattern>>
  /\ Len(dbInfo.labels) = 2
  /\ RuleItems = Labelled(<<KNOWS, Person>>, TypeParameter)

\* The call went past the three early returns of autoCompleteStructurally.
GatePassed ==
  /\ StructuralReturned
  /\ Len(tokens) - 2 > 0
  /\ tokens[Len(tokens)].text = EOFText
  /\ tokens[Len(tokens) - 1].type /= SPACE

\* The ancestors of the stop node, nearest first, are tree[2], tree[3], ...
AncestorsIn(ctxs) == {j \in 2..Len(tree) : tree[j].ctx \in ctxs}

InLabelInRelationshipPattern ==
  \E j \in AncestorsIn({LabelExpression4Context, LabelExpression4IsContext}) :
    \E k \in AncestorsIn({RelationshipPatternContext}) : j < k

NearestExpression ==
  CHOOSE j \in AncestorsIn({Expression2Context}) :
    \A k \in AncestorsIn({Expression2Context}) : j <= k

HasPrefix(name, text) ==
  /\ Len(text) <= Len(name)
  /\ \A i \in 1..Len(text) : name[i] = text[i]

RECURSIVE Segments(_)
Segments(label) ==
  IF \A i \in 1..Len(label) : label[i] /= " " THEN <<label>>
  ELSE LET sp == CHOOSE i \in 1..Len(label) :
                   label[i] = " " /\ \A j \in 1..(i - 1) : label[j] /= " "
       IN <<SubSeq(label, 1, sp - 1)>> \o Segments(SubSeq(label, sp + 1, Len(label)))

DisplayNames == {tokenNames(t) : t \in NamedTokens}

WellFormedLabel(label) ==
  \A i \in 1..Len(Segments(label)) :
    /\ Segments(label)[i] /= <<>>
    /\ Segments(label)[i] /= <<"u", "n", "d", "e", "f", "i", "n", "e", "d">>
    /\ Segments(label)[i] \in DisplayNames

\* C13: every Keyword label that completionCoreCompletion returns is a
\* non-empty sequence of token display names with exactly one space between
\* two of them, none before the first or after the last, and no empty or
\* 'undefined' segment, whatever the candidate token and its follow-up
\* tokens, those without a display name included.
C13_WellFormedKeywordLabels ==
  CoreReturned =>
    \A i \in 1..Len(KeywordLabels) : WellFormedLabel(KeywordLabels[i])

\* The candidate OPTIONAL followed of necessity by MATCH and a token without
\* a display name is offered as 'OPTIONAL MATCH ', with a space at its end.
C13_Witness ==
  /\ CoreReturned
  /\ TokenCandidate = [tokenNumber |-> OPTIONAL, indexes |-> <<MATCH, UNNAMED>>,
                       optional |-> FALSE]
  /\ KeywordLabels
       = <<(<<"O", "P", "T", "I", "O", "N", "A", "L", " ", "M", "A", "T", "C", "H", " ">>)>>

AddingCharReturned == pc = "autoCompleteStructurallyAddingChar"

AllRelationshipTypes == List(Labelled(dbInfo.relationshipTypes, TypeParameter))

\* The stop node of the reparsed tree has a label expression among its
\* ancestors and a relationship pattern above it.
ReparsedInRelationshipType ==
  \E j \in 2..Len(reparsed.result), k \in 2..Len(reparsed.result) :
    /\ j < k
    /\ reparsed.result[j].ctx \in {LabelExpression4Context, LabelExpression4IsContext}
    /\ reparsed.result[k].ctx = RelationshipPatternContext

ReparsedLastToken == reparsed.tokens[Len(reparsed.tokens) - 1]

\* C12: autoCompleteStructurallyAddingChar hands the parser the text with
\* one 'x' appended, once; it returns undefined or the list of all the
\* relationship types, and no item of another kind; it returns the list only
\* when the stop node of the reparsed tree is in a relationship-type
\* position, and does so when the reparsed stream has two real tokens or
\* more, the last one not whitespace; it returns undefined when the reparsed
\* stream holds the end marker alone or its last real token is whitespace.
C12_FillerVariant ==
  AddingCharReturned =>
    /\ parsed = <<textUntilPosition(tokens) \o <<"x">>>>
    /\ Len(parsed[1]) = Len(textUntilPosition(tokens)) + 1
    /\ result \in {Undefined, AllRelationshipTypes}
    /\ \A i \in 1..Len(result.items) : result.items[i].kind = TypeParameter
    /\ result = AllRelationshipTypes => ReparsedInRelationshipType
    /\ (/\ ReparsedInRelationshipType
        /\ Len(reparsed.tokens) > 2
        /\ ReparsedLastToken.type /= SPACE) => result = AllRelationshipTypes
    /\ Len(reparsed.tokens) = 1 => result = Undefined
    /\ (Len(reparsed.tokens) > 1 /\ ReparsedLastToken.type = SPACE) => result = Undefined

C12_Witness ==
  /\ AddingCharReturned
  /\ tokens = <<NameToken, EOFToken>>
  /\ parsed = <<(<<"P", "x">>)>>
  /\ reparsed.result
       = <<Node(OtherContext, <<>>), Node(LabelExpression4IsContext, <<>>),
           Node(RelationshipPatternContext, <<>>)>>
  /\ Len(dbInfo.relationshipTypes) = MaxNames
  /\ result = AllRelationshipTypes

Provided == pc = "provideDocumentSemanticTokens"

\* The token types that the methods of SyntaxHighlighter push.
HighlighterTypes ==
  {"typeParameter", "keyword", "decorator", "method", "variable", "property", "string"}

\* The index of a name in a list, counted from 0.
IndexIn(list, name) == (CHOOSE i \in 1..Len(list) : list[i] = name) - 1

\* C14: in every step of every sequence of Legend constructions and
\* provideDocumentSemanticTokens calls: a call pushes one entry per token of
\* the highlighter, each of one of the seven types, encoded as the index of
\* its type in tokenTypes of every Legend constructed so far, and as 0 when
\* none has been constructed; tokenTypesMap changes only in a step that
\* constructs a Legend; and no key of tokenTypesMap ever changes its value.
C14_TokenTypeEncoding ==
  [][/\ Provided' =>
          /\ Len(builder') = Len(allTokens')
          /\ \A i \in 1..Len(builder') :
               /\ allTokens'[i].tokenType \in HighlighterTypes
               /\ \A l \in 1..Len(legends) :
                    builder'[i].tokenType
                      = IndexIn(legends[l].tokenTypes, allTokens'[i].tokenType)
               /\ legends = <<>> => builder'[i].tokenType = 0
               /\ ~MapHas(tokenTypesMap, allTokens'[i].tokenType)
                    => builder'[i].tokenType = 0
     /\ tokenTypesMap' /= tokenTypesMap => legends' = Append(legends, NewLegend)
     /\ \A k \in MapKeys(tokenTypesMap) :
          /\ MapHas(tokenTypesMap', k)
          /\ MapGet(tokenTypesMap', k) = MapGet(tokenTypesMap, k)]_vars

\* 'OPTIONAL MATCH' highlighted once before any Legend and once after
\* MaxLegends of them: OPTIONAL is encoded as 15 and MATCH as 14.
C14_Witness ==
  /\ Provided
  /\ Len(legends) = MaxLegends
  /\ document = <<Event("exitOC_Match", Symbol(1, 1, 1), <<Symbol(1, 0, 0)>>)>>
  /\ Len(builder) = 2
  /\ builder[1].tokenType = 15
  /\ builder[2].tokenType = 14

====
